---- MODULE Spec2Model ----
(***************************************************************************)
(* vTPM transport of the TD guest (VTpmContextWrite / VTpmContextRead):    *)
(* two shared one-page buffers per call, a two-level frame (TDVMCALL       *)
(* service header + vTPM message header + payload) and one TDVMCALL.       *)
(*                                                                         *)
(* Memory is modelled byte by byte.  A byte string (a page, a payload, a    *)
(* header) is kept run-length encoded: a sequence of runs << n, b >>, n    *)
(* times the byte b, no run empty and no two neighbours of the same byte,  *)
(* so that equal strings have equal encodings.  The page pool holds the    *)
(* allocation state and the shared attribute of every page; the contents   *)
(* are kept for the two buffers of the call in flight only.                *)
(***************************************************************************)
EXTENDS Integers, Sequences, FiniteSets, TLC

(***************************************************************************)
(* Bounds of the model.                                                    *)
(***************************************************************************)
\* pages of the pool the page allocator hands out
NumPages == 3
\* largest page count given to a direct Acquire / Release
MaxPages == 2
\* longest short payload a caller sends (Requests adds the long ones)
MaxLen == 2
\* execution contexts calling Write / Read concurrently
NumContexts == 2

(***************************************************************************)
(* Program constants.                                                      *)
(***************************************************************************)
SERVICE_VTPM_SEND_MESSAGE == 1
SERVICE_VTPM_RECEIVE_MESSAGE == 2
VMM_SPDM_TIMEOUT == 2000
VTPM_DEFAULT_ALLOCATION_PAGE == 1
EFI_PAGE_SIZE == 4096
\* sizeof (TDVMCALL_SERVICE_COMMAND_HEADER) = sizeof (TDVMCALL_SERVICE_RESPONSE_HEADER)
SizeofServiceHeader == 24
\* sizeof (SEND_MESSAGE_COMMAND_HEADER) = sizeof of the other three message headers
SizeofMessageHeader == 4
\* offsets of the fields of the packed headers
OffsetLength == 16
OffsetStatus == 20
OffsetMsgCommand == 25
OffsetMsgStatus == 26
\* a UINT32 is kept as its two 16-bit halves << high, low >>
UINT16_MOD == 65536
NULL == 0
\* a UINT64 mask is kept as its two 32-bit halves; this is the mask 0
NoMask == << 0, 0 >>

EFI_PAGES_TO_SIZE(Pages) == Pages * EFI_PAGE_SIZE

EFI_ERROR(Status) == Status # "EFI_SUCCESS"

\* a byte of a freshly allocated page: AllocatePages does not clear it, so it
\* stands for any value; the code never computes with it, it only copies it
Uninitialized == -1

\* a byte behind the end of a page, standing for whatever lies there
Beyond == -2

(***************************************************************************)
(* Byte strings.                                                           *)
(***************************************************************************)
Max(a, b) == IF a > b THEN a ELSE b

Min(a, b) == IF a < b THEN a ELSE b

\* n times the byte b
Run(n, b) == IF n <= 0 THEN << >> ELSE << << n, b >> >>

\* r followed by q
Cat(r, q) ==
  IF r = << >> THEN q
  ELSE IF q = << >> THEN r
  ELSE IF r[Len(r)][2] = q[1][2]
    THEN SubSeq(r, 1, Len(r) - 1) \o << << r[Len(r)][1] + q[1][1], q[1][2] >> >> \o Tail(q)
    ELSE r \o q

\* the number of bytes of r
RECURSIVE Size(_)
Size(r) == IF r = << >> THEN 0 ELSE r[1][1] + Size(Tail(r))

\* the first n bytes of r
RECURSIVE Take(_, _)
Take(r, n) ==
  IF n <= 0 \/ r = << >> THEN << >>
  ELSE IF r[1][1] >= n THEN << << n, r[1][2] >> >>
  ELSE << r[1] >> \o Take(Tail(r), n - r[1][1])

\* r without its first n bytes
RECURSIVE Drop(_, _)
Drop(r, n) ==
  IF n <= 0 \/ r = << >> THEN r
  ELSE IF r[1][1] > n THEN << << r[1][1] - n, r[1][2] >> >> \o Tail(r)
  ELSE Drop(Tail(r), n - r[1][1])

\* the byte at offset off of r
RECURSIVE At(_, _)
At(r, off) == IF r[1][1] > off THEN r[1][2] ELSE At(Tail(r), off - r[1][1])

\* the byte string of a sequence of bytes
RECURSIVE Bytes(_)
Bytes(s) == IF s = << >> THEN << >> ELSE Cat(Run(1, s[1]), Bytes(Tail(s)))

\* CopyMem (buf + off, src, Size(src)); bytes falling past the end of buf do
\* not land in buf
CopyMem(buf, off, src) ==
  LET n == Min(Size(src), Size(buf) - off)
  IN  Cat(Cat(Take(buf, off), Take(src, n)), Drop(buf, off + n))

\* the n bytes CopyMem reads at buf + off; a byte past the end of buf is
\* whatever lies behind the page
ReadMem(buf, off, n) ==
  LET there == Max(0, Min(n, Size(buf) - off))
  IN  Cat(Take(Drop(buf, off), there), Run(n - there, Beyond))

\* (UINT32) n, for a number n < 2^31
U32(n) == << (n \div UINT16_MOD) % UINT16_MOD, n % UINT16_MOD >>

\* a - b in UINT32 arithmetic
U32Sub(a, b) ==
  LET low == a[2] - b[2]
      borrow == IF low < 0 THEN 1 ELSE 0
  IN  << (a[1] - b[1] - borrow) % UINT16_MOD, low % UINT16_MOD >>

\* a > b
U32Gt(a, b) == a[1] > b[1] \/ (a[1] = b[1] /\ a[2] > b[2])

\* the number a UINT32 below 2^31 stands for
U32Val(a) == a[1] * UINT16_MOD + a[2]

\* the four bytes of a UINT32 in memory (little endian)
U32Bytes(a) == Bytes(<< a[2] % 256, a[2] \div 256, a[1] % 256, a[1] \div 256 >>)

\* the two bytes of the UINT16 n in memory
U16Bytes(n) == Bytes(<< n % 256, (n \div 256) % 256 >>)

\* the UINT32 stored at byte offset off of buf
ReadUint32(buf, off) ==
  << At(buf, off + 2) + 256 * At(buf, off + 3), At(buf, off) + 256 * At(buf, off + 1) >>

(***************************************************************************)
(* Header templates.                                                       *)
(***************************************************************************)
ServiceGuid ==
  Bytes(<< 147, 7, 89, 100, 82, 120, 82, 78, 190, 69, 205, 187, 17, 111, 32, 243 >>)

mTdvmcallServiceCommandHeaderTemplate == Cat(Cat(ServiceGuid, U32Bytes(U32(0))), U32Bytes(U32(0)))

mTdvmcallServiceResponseHeaderTemplate == Cat(Cat(ServiceGuid, U32Bytes(U32(0))), U32Bytes(U32(0)))

mSendMessageCommandHeaderTemplate == Cat(Bytes(<< 0, SERVICE_VTPM_SEND_MESSAGE >>), U16Bytes(0))

mSendMessageResponseHeaderTemplate == Bytes(<< 0, SERVICE_VTPM_SEND_MESSAGE, 0, 0 >>)

mReceiveMessageCommandHeaderTemplate == Cat(Bytes(<< 0, SERVICE_VTPM_RECEIVE_MESSAGE >>), U16Bytes(0))

mReceiveMessageResponseHeaderTemplate == Bytes(<< 0, SERVICE_VTPM_RECEIVE_MESSAGE, 0, 0 >>)

(***************************************************************************)
(* Inputs of the model.                                                    *)
(***************************************************************************)
\* the largest payload that fits the command buffer behind the two headers
MaxPayloadSize == EFI_PAGE_SIZE - (SizeofServiceHeader + SizeofMessageHeader)

\* a short payload: n bytes that all differ
Payload(n, seed) == Bytes([i \in 1..n |-> (seed + 7 * i) % 256])

\* a long payload: n >= 2 bytes, the first and the last unlike the others
LongPayload(n, seed) ==
  Cat(Cat(Run(1, seed), Run(n - 2, (seed + 1) % 256)), Run(1, (seed + 2) % 256))

\* the payloads callers send: the short ones, the largest that fits the
\* command buffer and the first that does not
Requests ==
  {Payload(n, 222) : n \in {0, MaxLen - 1, MaxLen}}
    \cup {Payload(MaxLen, 17)}
    \cup {LongPayload(n, 222) : n \in {MaxPayloadSize, MaxPayloadSize + 1}}

\* capacities a caller of Read announces; its buffer has that many bytes
Capacities == {0, MaxLen - 1, MaxLen, EFI_PAGE_SIZE}

\* what a caller's destination buffer holds before Read
CallerFill == 238

Pages == 1..NumPages

\* the execution contexts that call Write and Read concurrently
Contexts == 1..NumContexts

\* the pool of the concurrent contexts: room for the buffers of two
\* invocations at once, and a page for every further context
ConcurrentPages == 1..(2 * VTPM_DEFAULT_ALLOCATION_PAGE + NumContexts)

Range(base, n) == base..(base + n - 1)

PlatformErrors == {"EFI_NO_MAPPING"}

VARIABLES
  allocated,     \* pages handed out by AllocatePages and not yet freed
  shared,        \* pages whose shared attribute is set
  held,          \* the buffer <<Buffer, Pages>> a direct Acquire returned, until released
  lastAcquire,   \* outcome of the last direct Acquire or Release
  pc,            \* position of the invocation in VTpmContextWrite / VTpmContextRead
  op,            \* "Write", "Read" or "None"
  Request,       \* Write: the caller's payload (RequestSize = Size(Request))
  ResponseSize,  \* Read: *ResponseSize, as << high, low >> 16-bit halves
  Response,      \* Read: the caller's destination buffer
  CmdBuffer,     \* page of the command buffer, or NULL
  RspBuffer,     \* page of the response buffer, or NULL
  cmdMem,        \* bytes of the command buffer
  rspMem,        \* bytes of the response buffer
  TdxSharedBit,  \* TdSharedPageMask ()
  RetCode,
  RetValue,
  Status,        \* the local Status; the value returned once pc = "Done"
  hostStore,     \* the message the host keeps for the guest
  sent,          \* the Request of the Write that put hostStore there
  failStatuses,  \* the statuses calls returned for a failed TdVmCall or a nonzero
                 \* status in the response, for the properties only
  trace,         \* history of the invocation, for the properties only
  ctx            \* the platform and the invocations of concurrent execution contexts

vars ==
  << allocated, shared, held, lastAcquire, pc, op, Request, ResponseSize, Response,
     CmdBuffer, RspBuffer, cmdMem, rspMem, TdxSharedBit, RetCode, RetValue, Status,
     hostStore, sent, failStatuses, trace, ctx >>

\* all but ctx
seqVars ==
  << allocated, shared, held, lastAcquire, pc, op, Request, ResponseSize, Response,
     CmdBuffer, RspBuffer, cmdMem, rspMem, TdxSharedBit, RetCode, RetValue, Status,
     hostStore, sent, failStatuses, trace >>

platVars == << allocated, shared >>

callVars ==
  << pc, op, Request, ResponseSize, Response, CmdBuffer, RspBuffer, cmdMem, rspMem,
     TdxSharedBit, RetCode, RetValue, Status, trace >>

(***************************************************************************)
(* Platform services: page allocator and page attribute setter.            *)
(* A platform state is a record [allocated, shared, pool], pool being the   *)
(* pages the allocator has to hand out.                                    *)
(***************************************************************************)
Plat == [allocated |-> allocated, shared |-> shared, pool |-> Pages]

\* bases at which AllocatePages (n) can place n contiguous free pages
FreeRuns(P, n) ==
  {b \in P.pool : Range(b, n) \subseteq P.pool /\ Range(b, n) \cap P.allocated = {}}

\* AllocatePages (n) returning base, one of FreeRuns
AllocatePages(P, base, n) == [P EXCEPT !.allocated = @ \cup Range(base, n)]

FreePages(P, Buffer, n) == [P EXCEPT !.allocated = @ \ Range(Buffer, n)]

\* MemEncryptTdxSetPageSharedBit (Mode, Address, Pages) ending with result:
\* Mode 0 marks the pages shared, Mode 1 reverts them to private; a call that
\* fails leaves the attribute as it was
MemEncryptTdxSetPageSharedBit(P, Mode, Address, n, result) ==
  IF EFI_ERROR(result)
    THEN [plat |-> P, Status |-> result]
    ELSE [plat |-> [P EXCEPT !.shared = IF Mode = 0 THEN @ \cup Range(Address, n)
                                                    ELSE @ \ Range(Address, n)],
          Status |-> result]

\* AllocateSharedBuffer gone wrong: the pages stay allocated when marking
\* them shared fails
AllocateSharedBuffer_LeaksOnFailure(P, n, base, setResult) ==
  IF base = NULL
    THEN [plat |-> P, Buffer |-> NULL]
    ELSE LET r == MemEncryptTdxSetPageSharedBit(AllocatePages(P, base, n), 0, base, n,
                                                setResult)
         IN  IF EFI_ERROR(r.Status)
               THEN [plat |-> r.plat, Buffer |-> NULL]
               ELSE [plat |-> r.plat, Buffer |-> base]

(***************************************************************************)
(* AllocateSharedBuffer (Pages), with the outcomes of the platform calls:  *)
(* base is what AllocatePages returns (NULL: out of memory), setResult     *)
(* what MemEncryptTdxSetPageSharedBit returns.                             *)
(***************************************************************************)
AllocateSharedBuffer(P, n, base, setResult) ==
  IF base = NULL
    THEN [plat |-> P, Buffer |-> NULL]
    ELSE LET r == MemEncryptTdxSetPageSharedBit(AllocatePages(P, base, n), 0, base, n,
                                                setResult)
         IN  IF EFI_ERROR(r.Status)
               THEN [plat |-> FreePages(r.plat, base, n), Buffer |-> NULL]
               ELSE [plat |-> r.plat, Buffer |-> base]

\* FreeSharedBuffer gone wrong: the pages are freed with their attribute set
FreeSharedBuffer_LeavesShared(P, Buffer, n, clearResult) ==
  IF Buffer = NULL \/ n = 0
    THEN [plat |-> P, Status |-> "EFI_INVALID_PARAMETER"]
    ELSE [plat |-> FreePages(P, Buffer, n), Status |-> clearResult]

\* FreeSharedBuffer gone wrong: the pages are not handed back
FreeSharedBuffer_KeepsPages(P, Buffer, n, clearResult) ==
  IF Buffer = NULL \/ n = 0
    THEN [plat |-> P, Status |-> "EFI_INVALID_PARAMETER"]
    ELSE LET r == MemEncryptTdxSetPageSharedBit(P, 1, Buffer, n, clearResult)
         IN  [plat |-> r.plat, Status |-> r.Status]

\* FreeSharedBuffer gone wrong: the pages are freed whatever the clearing of
\* the attribute returned
FreeSharedBuffer_FreesAnyway(P, Buffer, n, clearResult) ==
  IF Buffer = NULL \/ n = 0
    THEN [plat |-> P, Status |-> "EFI_INVALID_PARAMETER"]
    ELSE LET r == MemEncryptTdxSetPageSharedBit(P, 1, Buffer, n, clearResult)
         IN  [plat |-> FreePages(r.plat, Buffer, n), Status |-> r.Status]

(***************************************************************************)
(* FreeSharedBuffer (Buffer, Pages), clearResult being what                *)
(* MemEncryptTdxSetPageSharedBit returns.                                  *)
(***************************************************************************)
FreeSharedBuffer(P, Buffer, n, clearResult) ==
  IF Buffer = NULL \/ n = 0
    THEN [plat |-> P, Status |-> "EFI_INVALID_PARAMETER"]
    ELSE LET r == MemEncryptTdxSetPageSharedBit(P, 1, Buffer, n, clearResult)
         IN  IF ~EFI_ERROR(r.Status)
               THEN [plat |-> FreePages(r.plat, Buffer, n), Status |-> r.Status]
               ELSE [plat |-> r.plat, Status |-> r.Status]

\* the outcomes the page allocator can have for n pages: out of memory, or
\* the highest free run (the allocator works top down)
AllocOutcomes(P, n) ==
  {NULL} \cup {b \in FreeRuns(P, n) : \A c \in FreeRuns(P, n) : c <= b}

SetResults == {"EFI_SUCCESS"} \cup PlatformErrors

SetPlat(P) ==
  /\ allocated' = P.allocated
  /\ shared' = P.shared

(***************************************************************************)
(* The state after construction: nothing allocated, no call in flight.     *)
(***************************************************************************)
\* the value of a local that has not been assigned
Unset == -1

UnsetMask == << Unset, Unset >>

\* an execution context that is not in VTpmContextWrite / VTpmContextRead
IdleProc ==
  [pc |-> "Idle", CmdBuffer |-> NULL, RspBuffer |-> NULL,
   Buffer |-> NULL,    \* the local Buffer of AllocateSharedBuffer
   owns |-> {}]        \* pages AllocatePages gave this invocation and it has not freed

NoTrace ==
  [calls |-> 0,          \* TdVmCall invocations of this call
   acquired |-> {},      \* pages AllocateSharedBuffer returned to this call
   freed |-> << >>,      \* <<Buffer, Status>> of every FreeSharedBuffer of this call
   capIn |-> 0,          \* Read: *ResponseSize on entry
   copied |-> 0,         \* Read: bytes copied into Response
   beyondRead |-> 0,     \* bytes read behind the end of the response buffer
   beyondWrite |-> 0,    \* bytes written behind the end of the command buffer
   hostCoop |-> FALSE,   \* the host served this call's TdVmCall cooperatively
   stage |-> "None"]     \* where the call left the straight path

Init ==
  /\ allocated = {}
  /\ shared = {}
  /\ held = {}
  /\ lastAcquire = [kind |-> "None"]
  /\ pc = "Idle"
  /\ op = "None"
  /\ Request = << >>
  /\ ResponseSize = U32(0)
  /\ Response = << >>
  /\ CmdBuffer = NULL
  /\ RspBuffer = NULL
  /\ cmdMem = << >>
  /\ rspMem = << >>
  /\ TdxSharedBit = UnsetMask
  /\ RetCode = Unset
  /\ RetValue = Unset
  /\ Status = "Unset"
  /\ hostStore = << >>
  /\ sent = << >>
  /\ failStatuses = {}
  /\ trace = NoTrace
  /\ ctx = [plat |-> [allocated |-> {}, shared |-> {}, pool |-> ConcurrentPages],
            proc |-> [c \in Contexts |-> IdleProc],
            foreign |-> FALSE]   \* an invocation cleared or freed a page it does not own

(***************************************************************************)
(* Direct use of the allocator: Acquire (pages) and Release (handle,       *)
(* pages), between calls.                                                  *)
(***************************************************************************)
Acquire(n, base, setResult) ==
  /\ pc = "Idle"
  /\ held = {}
  /\ LET a == AllocateSharedBuffer(Plat, n, base, setResult)
     IN  /\ SetPlat(a.plat)
         /\ held' = IF a.Buffer = NULL THEN held ELSE held \cup {<< a.Buffer, n >>}
         /\ lastAcquire' = [kind |-> "Acquire", Buffer |-> a.Buffer, Pages |-> n,
                            base |-> base, before |-> Plat, paired |-> FALSE]
  /\ UNCHANGED << ctx, callVars, hostStore, sent, failStatuses >>

\* the last allocator operation was the Acquire that returned the buffer h
AcquiredJustBefore(h) ==
  /\ lastAcquire.kind = "Acquire"
  /\ lastAcquire.Buffer = h[1]
  /\ lastAcquire.Pages = h[2]

Release(h, clearResult) ==
  /\ pc = "Idle"
  /\ LET f == FreeSharedBuffer(Plat, h[1], h[2], clearResult)
     IN  /\ SetPlat(f.plat)
         /\ held' = IF EFI_ERROR(f.Status) THEN held ELSE held \ {h}
         /\ lastAcquire' = [kind |-> "Release", Buffer |-> h[1], Pages |-> h[2],
                            Status |-> f.Status, before |-> Plat,
                            paired |-> AcquiredJustBefore(h),
                            origin |-> IF AcquiredJustBefore(h) THEN lastAcquire.before
                                                                ELSE Plat]
  /\ UNCHANGED << ctx, callVars, hostStore, sent, failStatuses >>

\* Release of a null handle or of zero pages
ReleaseInvalid(h) ==
  /\ pc = "Idle"
  /\ h[1] = NULL \/ h[2] = 0
  /\ LET f == FreeSharedBuffer(Plat, h[1], h[2], "EFI_SUCCESS")
     IN  /\ SetPlat(f.plat)
         /\ lastAcquire' = [kind |-> "Release", Buffer |-> h[1], Pages |-> h[2],
                            Status |-> f.Status, before |-> Plat, paired |-> FALSE,
                            origin |-> Plat]
  /\ UNCHANGED << ctx, held, callVars, hostStore, sent, failStatuses >>

(***************************************************************************)
(* Frames.                                                                 *)
(***************************************************************************)
SizeofHeaders == SizeofServiceHeader + SizeofMessageHeader

\* BuildSendCommand gone wrong: the outer length is the capacity of the buffer
BuildSendCommand_CapacityLength(buf, Req) ==
  LET c1 == CopyMem(buf, SizeofServiceHeader, mSendMessageCommandHeaderTemplate)
      c2 == CopyMem(c1, SizeofServiceHeader + SizeofMessageHeader, Req)
      c3 == CopyMem(c2, 0, mTdvmcallServiceCommandHeaderTemplate)
  IN  CopyMem(c3, OffsetLength, U32Bytes(U32(Size(buf))))

\* VTpmContextWrite: the send_message command packet in CmdBuffer
BuildSendCommand(buf, Req) ==
  LET c1 == CopyMem(buf, SizeofServiceHeader, mSendMessageCommandHeaderTemplate)
      c2 == CopyMem(c1, SizeofServiceHeader + SizeofMessageHeader, Req)
      DataLen == U32(SizeofServiceHeader + SizeofMessageHeader + Size(Req))
      c3 == CopyMem(c2, 0, mTdvmcallServiceCommandHeaderTemplate)
  IN  CopyMem(c3, OffsetLength, U32Bytes(DataLen))

\* BuildSendResponse gone wrong: the outer length is the capacity of the buffer
BuildSendResponse_CapacityLength(buf) ==
  LET r1 == CopyMem(buf, SizeofServiceHeader, mSendMessageResponseHeaderTemplate)
      r2 == CopyMem(r1, 0, mTdvmcallServiceResponseHeaderTemplate)
  IN  CopyMem(r2, OffsetLength, U32Bytes(U32(Size(buf))))

\* VTpmContextWrite: the send_message response packet in RspBuffer
BuildSendResponse(buf) ==
  LET r1 == CopyMem(buf, SizeofServiceHeader, mSendMessageResponseHeaderTemplate)
      DataLen == U32(SizeofServiceHeader + SizeofMessageHeader)
      r2 == CopyMem(r1, 0, mTdvmcallServiceResponseHeaderTemplate)
  IN  CopyMem(r2, OffsetLength, U32Bytes(DataLen))

\* BuildReceiveCommand gone wrong: the outer length is the capacity of the buffer
BuildReceiveCommand_CapacityLength(buf) ==
  LET c1 == CopyMem(buf, SizeofServiceHeader, mReceiveMessageCommandHeaderTemplate)
      c2 == CopyMem(c1, 0, mTdvmcallServiceCommandHeaderTemplate)
  IN  CopyMem(c2, OffsetLength, U32Bytes(U32(Size(buf))))

\* VTpmContextRead: the receive_message command packet in CmdBuffer
BuildReceiveCommand(buf) ==
  LET c1 == CopyMem(buf, SizeofServiceHeader, mReceiveMessageCommandHeaderTemplate)
      DataLen == U32(SizeofServiceHeader + SizeofMessageHeader)
      c2 == CopyMem(c1, 0, mTdvmcallServiceCommandHeaderTemplate)
  IN  CopyMem(c2, OffsetLength, U32Bytes(DataLen))

\* VTpmContextRead: the receive_message response packet in RspBuffer
BuildReceiveResponse(buf, BufferSize) ==
  LET r1 == CopyMem(buf, SizeofServiceHeader, mReceiveMessageResponseHeaderTemplate)
      DataLen == U32(BufferSize)
      r2 == CopyMem(r1, 0, mTdvmcallServiceResponseHeaderTemplate)
  IN  CopyMem(r2, OffsetLength, U32Bytes(DataLen))

\* TdvmcallRspHeader->Status
ServiceStatus(rsp) == ReadUint32(rsp, OffsetStatus)

\* SendMessageRspHeader->Status, ReceiveMessageRspHeader->Status
MessageStatus(rsp) == At(rsp, OffsetMsgStatus)

\* TdvmcallRspHeader->Length
ServiceLength(rsp) == ReadUint32(rsp, OffsetLength)

\* ProcessResponse gone wrong: a response that does not fit is cut to the
\* capacity
ProcessResponse_Truncates(rsp, Capacity, Rsp) ==
  LET HeaderLen == SizeofServiceHeader + SizeofMessageHeader
      DataLen == U32Sub(ServiceLength(rsp), U32(HeaderLen))
      n == IF U32Gt(DataLen, Capacity) THEN U32Val(Capacity) ELSE U32Val(DataLen)
  IN  [Status |-> "EFI_SUCCESS", ResponseSize |-> U32(n),
       Response |-> CopyMem(Rsp, 0, ReadMem(rsp, HeaderLen, n)),
       copied |-> n,
       beyondRead |-> Max(0, HeaderLen + n - Size(rsp))]

\* VTpmContextRead, "Process the data received": what becomes of *ResponseSize
\* and Response
ProcessResponse(rsp, Capacity, Rsp) ==
  LET HeaderLen == SizeofServiceHeader + SizeofMessageHeader
      DataLen == U32Sub(ServiceLength(rsp), U32(HeaderLen))
  IN  IF U32Gt(DataLen, Capacity)
        THEN [Status |-> "EFI_BUFFER_TOO_SMALL", ResponseSize |-> DataLen,
              Response |-> Rsp, copied |-> 0, beyondRead |-> 0]
        ELSE [Status |-> "EFI_SUCCESS", ResponseSize |-> DataLen,
              Response |-> CopyMem(Rsp, 0, ReadMem(rsp, HeaderLen, U32Val(DataLen))),
              copied |-> U32Val(DataLen),
              beyondRead |-> Max(0, HeaderLen + U32Val(DataLen) - Size(rsp))]

(***************************************************************************)
(* The host side of TDVMCALL_SERVICE.                                      *)
(***************************************************************************)
HostFrame(length, status, msgHeader, data) ==
  Cat(Cat(Cat(Cat(ServiceGuid, U32Bytes(U32(length))), U32Bytes(U32(status))), msgHeader), data)

\* a cooperative host: it keeps the payload framed in a send_message command
\* and returns it framed in the response to a receive_message command
HostServe(cmd, rsp, store) ==
  LET len == IF ServiceLength(cmd)[1] = 0 THEN ServiceLength(cmd)[2] ELSE UINT16_MOD
      command == At(cmd, OffsetMsgCommand)
      room == IF ServiceLength(rsp)[1] = 0 THEN ServiceLength(rsp)[2] ELSE UINT16_MOD
  IN  IF len < SizeofHeaders \/ len > Size(cmd)
        THEN [rsp |-> CopyMem(rsp, OffsetStatus, U32Bytes(U32(1))), store |-> store, kept |-> FALSE]
      ELSE IF command = SERVICE_VTPM_SEND_MESSAGE
        THEN [rsp |-> CopyMem(rsp, 0, HostFrame(SizeofHeaders, 0,
                                                 mSendMessageResponseHeaderTemplate, << >>)),
              store |-> ReadMem(cmd, SizeofHeaders, len - SizeofHeaders),
              kept |-> TRUE]
      ELSE IF command = SERVICE_VTPM_RECEIVE_MESSAGE /\ SizeofHeaders + Size(store) <= room
        THEN [rsp |-> CopyMem(rsp, 0, HostFrame(SizeofHeaders + Size(store), 0,
                                                 mReceiveMessageResponseHeaderTemplate, store)),
              store |-> store, kept |-> FALSE]
      ELSE [rsp |-> CopyMem(rsp, OffsetStatus, U32Bytes(U32(1))), store |-> store, kept |-> FALSE]

\* what any other host may put into the response buffer
HostLengths ==
  {0, SizeofHeaders - 1, SizeofHeaders, SizeofHeaders + MaxLen - 1, SizeofHeaders + MaxLen,
   EFI_PAGE_SIZE, EFI_PAGE_SIZE + 1}

HostStatuses == {0, 1}

HostData == Payload(MaxLen, 90)

TdSharedPageMasks == {NoMask, << 32768, 0 >>}

(***************************************************************************)
(* VTpmContextWrite and VTpmContextRead, step by step.                     *)
(***************************************************************************)
\* the locals on entry: both buffers NULL, the others not yet assigned
EnterCall(o) ==
  /\ pc = "Idle"
  /\ pc' = "AllocCmd"
  /\ op' = o
  /\ CmdBuffer' = NULL
  /\ RspBuffer' = NULL
  /\ lastAcquire' = [kind |-> "None"]
  /\ UNCHANGED << ctx, platVars, held, cmdMem, rspMem, TdxSharedBit, RetCode, RetValue,
                  Status, hostStore, sent, failStatuses >>

WriteEntry(req) ==
  /\ EnterCall("Write")
  /\ Request' = req
  /\ ResponseSize' = U32(0)
  /\ Response' = << >>
  /\ trace' = NoTrace

ReadEntry(cap) ==
  /\ EnterCall("Read")
  /\ Request' = << >>
  /\ ResponseSize' = U32(cap)
  /\ Response' = Run(cap, CallerFill)
  /\ trace' = [NoTrace EXCEPT !.capIn = cap]

\* goto QuitVTPMContextWrite / QuitVTPMContextRead with Status = s
Quit(s, stage) ==
  /\ Status' = s
  /\ pc' = "QuitCmd"
  /\ trace' = [trace EXCEPT !.stage = stage]

\* CmdBuffer = AllocateSharedBuffer (VTPM_DEFAULT_ALLOCATION_PAGE)
AllocCmd(base, setResult) ==
  /\ pc = "AllocCmd"
  /\ LET a == AllocateSharedBuffer(Plat, VTPM_DEFAULT_ALLOCATION_PAGE, base, setResult)
     IN  /\ SetPlat(a.plat)
         /\ CmdBuffer' = a.Buffer
         /\ IF a.Buffer = NULL
              THEN /\ Quit("EFI_UNSUPPORTED", "AllocCmd")
                   /\ UNCHANGED cmdMem
              ELSE /\ pc' = "AllocRsp"
                   /\ cmdMem' = Run(EFI_PAGES_TO_SIZE(VTPM_DEFAULT_ALLOCATION_PAGE), Uninitialized)
                   /\ trace' = [trace EXCEPT !.acquired = @ \cup {a.Buffer}]
                   /\ UNCHANGED Status
  /\ UNCHANGED << ctx, held, lastAcquire, op, Request, ResponseSize, Response, RspBuffer,
                  rspMem, TdxSharedBit, RetCode, RetValue, hostStore, sent, failStatuses >>

\* RspBuffer = AllocateSharedBuffer (VTPM_DEFAULT_ALLOCATION_PAGE)
AllocRsp(base, setResult) ==
  /\ pc = "AllocRsp"
  /\ LET a == AllocateSharedBuffer(Plat, VTPM_DEFAULT_ALLOCATION_PAGE, base, setResult)
     IN  /\ SetPlat(a.plat)
         /\ RspBuffer' = a.Buffer
         /\ IF a.Buffer = NULL
              THEN /\ Quit("EFI_UNSUPPORTED", "AllocRsp")
                   /\ UNCHANGED rspMem
              ELSE /\ pc' = "Build"
                   /\ rspMem' = Run(EFI_PAGES_TO_SIZE(VTPM_DEFAULT_ALLOCATION_PAGE), Uninitialized)
                   /\ trace' = [trace EXCEPT !.acquired = @ \cup {a.Buffer}]
                   /\ UNCHANGED Status
  /\ UNCHANGED << ctx, held, lastAcquire, op, Request, ResponseSize, Response, CmdBuffer,
                  cmdMem, TdxSharedBit, RetCode, RetValue, hostStore, sent, failStatuses >>

\* WriteBuild gone wrong: the response packet is not built
WriteBuild_NoResponsePacket ==
  /\ pc = "Build"
  /\ op = "Write"
  /\ cmdMem' = BuildSendCommand(cmdMem, Request)
  /\ trace' = [trace EXCEPT !.beyondWrite = Max(0, SizeofHeaders + Size(Request) - Size(cmdMem))]
  /\ pc' = "GetMask"
  /\ UNCHANGED << ctx, platVars, held, lastAcquire, op, Request, ResponseSize, Response,
                  CmdBuffer, RspBuffer, rspMem, TdxSharedBit, RetCode, RetValue, Status,
                  hostStore, sent, failStatuses >>

\* VTpmContextWrite: build the command and the response packet
WriteBuild ==
  /\ pc = "Build"
  /\ op = "Write"
  /\ cmdMem' = BuildSendCommand(cmdMem, Request)
  /\ rspMem' = BuildSendResponse(rspMem)
  /\ trace' = [trace EXCEPT !.beyondWrite = Max(0, SizeofHeaders + Size(Request) - Size(cmdMem))]
  /\ pc' = "GetMask"
  /\ UNCHANGED << ctx, platVars, held, lastAcquire, op, Request, ResponseSize, Response,
                  CmdBuffer, RspBuffer, TdxSharedBit, RetCode, RetValue, Status,
                  hostStore, sent, failStatuses >>

\* ReadBuild gone wrong: *ResponseSize is set to 0 before the call
ReadBuild_ClearsResponseSize ==
  /\ pc = "Build"
  /\ op = "Read"
  /\ cmdMem' = BuildReceiveCommand(cmdMem)
  /\ rspMem' = BuildReceiveResponse(rspMem, EFI_PAGES_TO_SIZE(VTPM_DEFAULT_ALLOCATION_PAGE))
  /\ ResponseSize' = U32(0)
  /\ pc' = "GetMask"
  /\ UNCHANGED << ctx, platVars, held, lastAcquire, op, Request, Response,
                  CmdBuffer, RspBuffer, TdxSharedBit, RetCode, RetValue, Status,
                  hostStore, sent, failStatuses, trace >>

\* VTpmContextRead: build the command and the response packet
ReadBuild ==
  /\ pc = "Build"
  /\ op = "Read"
  /\ cmdMem' = BuildReceiveCommand(cmdMem)
  /\ rspMem' = BuildReceiveResponse(rspMem, EFI_PAGES_TO_SIZE(VTPM_DEFAULT_ALLOCATION_PAGE))
  /\ pc' = "GetMask"
  /\ UNCHANGED << ctx, platVars, held, lastAcquire, op, Request, ResponseSize, Response,
                  CmdBuffer, RspBuffer, TdxSharedBit, RetCode, RetValue, Status,
                  hostStore, sent, failStatuses, trace >>

\* GetMask gone wrong: a mask of 0 is used like any other
GetMask_Unchecked(mask) ==
  /\ pc = "GetMask"
  /\ TdxSharedBit' = mask
  /\ pc' = "Call"
  /\ UNCHANGED << ctx, platVars, held, lastAcquire, op, Request, ResponseSize, Response,
                  CmdBuffer, RspBuffer, cmdMem, rspMem, RetCode, RetValue, Status,
                  hostStore, sent, failStatuses, trace >>

\* TdxSharedBit = TdSharedPageMask (), which returns mask
GetMask(mask) ==
  /\ pc = "GetMask"
  /\ TdxSharedBit' = mask
  /\ IF mask = NoMask
       THEN Quit("EFI_ABORTED", "Mask")
       ELSE /\ pc' = "Call"
            /\ UNCHANGED << Status, trace >>
  /\ UNCHANGED << ctx, platVars, held, lastAcquire, op, Request, ResponseSize, Response,
                  CmdBuffer, RspBuffer, cmdMem, rspMem, RetCode, RetValue, hostStore, sent, failStatuses >>

\* RetCode = TdVmCall (TDVMCALL_SERVICE, ...) answered by a cooperative host
TdVmCallServed ==
  /\ pc = "Call"
  /\ {CmdBuffer, RspBuffer} \subseteq shared
  /\ LET h == HostServe(cmdMem, rspMem, hostStore)
     IN  /\ rspMem' = h.rsp
         /\ hostStore' = h.store
         /\ sent' = IF h.kept THEN Request ELSE sent
  /\ RetCode' = 0
  /\ RetValue' = 0
  /\ trace' = [trace EXCEPT !.calls = @ + 1, !.hostCoop = TRUE]
  /\ pc' = "CheckRet"
  /\ UNCHANGED << ctx, platVars, held, lastAcquire, op, Request, ResponseSize, Response,
                  CmdBuffer, RspBuffer, cmdMem, TdxSharedBit, Status, failStatuses >>

\* TdVmCall failing: a nonzero return code or return value (a timeout is one)
TdVmCallFailed(code, value) ==
  /\ pc = "Call"
  /\ code # 0 \/ value # 0
  /\ RetCode' = code
  /\ RetValue' = value
  /\ trace' = [trace EXCEPT !.calls = @ + 1]
  /\ pc' = "CheckRet"
  /\ UNCHANGED << ctx, platVars, held, lastAcquire, op, Request, ResponseSize, Response,
                  CmdBuffer, RspBuffer, cmdMem, rspMem, TdxSharedBit, Status,
                  hostStore, sent, failStatuses >>

\* TdVmCall answered by a host that writes what it likes into the response
TdVmCallAnswered(length, status, msgStatus) ==
  /\ pc = "Call"
  /\ RspBuffer \in shared
  /\ rspMem' = CopyMem(rspMem, 0,
                       HostFrame(length, status,
                                 Bytes(<< 0, IF op = "Write" THEN SERVICE_VTPM_SEND_MESSAGE
                                                             ELSE SERVICE_VTPM_RECEIVE_MESSAGE,
                                          msgStatus, 0 >>),
                                 HostData))
  /\ RetCode' = 0
  /\ RetValue' = 0
  /\ trace' = [trace EXCEPT !.calls = @ + 1]
  /\ pc' = "CheckRet"
  /\ UNCHANGED << ctx, platVars, held, lastAcquire, op, Request, ResponseSize, Response,
                  CmdBuffer, RspBuffer, cmdMem, TdxSharedBit, Status, hostStore, sent, failStatuses >>

\* CheckRet gone wrong: a failed TdVmCall is tried again
CheckRet_Retries ==
  /\ pc = "CheckRet"
  /\ IF RetCode # 0 \/ RetValue # 0
       THEN pc' = "Call"
       ELSE pc' = "CheckService"
  /\ UNCHANGED << ctx, platVars, held, lastAcquire, op, Request, ResponseSize, Response,
                  CmdBuffer, RspBuffer, cmdMem, rspMem, TdxSharedBit, RetCode, RetValue,
                  Status, trace, hostStore, sent, failStatuses >>

\* if ((RetCode != 0) || (RetValue != 0))
CheckRet ==
  /\ pc = "CheckRet"
  /\ IF RetCode # 0 \/ RetValue # 0
       THEN Quit("EFI_ABORTED", "RetCode")
       ELSE /\ pc' = "CheckService"
            /\ UNCHANGED << Status, trace >>
  /\ UNCHANGED << ctx, platVars, held, lastAcquire, op, Request, ResponseSize, Response,
                  CmdBuffer, RspBuffer, cmdMem, rspMem, TdxSharedBit, RetCode, RetValue,
                  hostStore, sent, failStatuses >>

\* CheckService gone wrong: the status of the service header is not looked at
CheckService_Unchecked ==
  /\ pc = "CheckService"
  /\ pc' = "CheckMessage"
  /\ UNCHANGED << ctx, platVars, held, lastAcquire, op, Request, ResponseSize, Response,
                  CmdBuffer, RspBuffer, cmdMem, rspMem, TdxSharedBit, RetCode, RetValue,
                  Status, trace, hostStore, sent, failStatuses >>

\* if (TdvmcallRspHeader->Status != 0)
CheckService ==
  /\ pc = "CheckService"
  /\ IF ServiceStatus(rspMem) # U32(0)
       THEN Quit("EFI_ABORTED", "ServiceStatus")
       ELSE /\ pc' = "CheckMessage"
            /\ UNCHANGED << Status, trace >>
  /\ UNCHANGED << ctx, platVars, held, lastAcquire, op, Request, ResponseSize, Response,
                  CmdBuffer, RspBuffer, cmdMem, rspMem, TdxSharedBit, RetCode, RetValue,
                  hostStore, sent, failStatuses >>

\* CheckMessage gone wrong: the status of the message header is not looked at
CheckMessage_Unchecked ==
  /\ pc = "CheckMessage"
  /\ IF op = "Write"
       THEN Quit("EFI_SUCCESS", "Success")
       ELSE /\ pc' = "Process"
            /\ UNCHANGED << Status, trace >>
  /\ UNCHANGED << ctx, platVars, held, lastAcquire, op, Request, ResponseSize, Response,
                  CmdBuffer, RspBuffer, cmdMem, rspMem, TdxSharedBit, RetCode, RetValue,
                  hostStore, sent, failStatuses >>

\* if (SendMessageRspHeader->Status != 0); Write then ends with EFI_SUCCESS
CheckMessage ==
  /\ pc = "CheckMessage"
  /\ IF MessageStatus(rspMem) # 0
       THEN Quit("EFI_ABORTED", "MessageStatus")
       ELSE IF op = "Write"
              THEN Quit("EFI_SUCCESS", "Success")
              ELSE /\ pc' = "Process"
                   /\ UNCHANGED << Status, trace >>
  /\ UNCHANGED << ctx, platVars, held, lastAcquire, op, Request, ResponseSize, Response,
                  CmdBuffer, RspBuffer, cmdMem, rspMem, TdxSharedBit, RetCode, RetValue,
                  hostStore, sent, failStatuses >>

\* VTpmContextRead: process the data received
ReadProcess ==
  /\ pc = "Process"
  /\ LET r == ProcessResponse(rspMem, ResponseSize, Response)
     IN  /\ ResponseSize' = r.ResponseSize
         /\ Response' = r.Response
         /\ Status' = r.Status
         /\ trace' = [trace EXCEPT !.copied = r.copied, !.beyondRead = r.beyondRead,
                                   !.stage = IF EFI_ERROR(r.Status) THEN "Capacity"
                                                                    ELSE "Success"]
  /\ pc' = "QuitCmd"
  /\ UNCHANGED << ctx, platVars, held, lastAcquire, op, Request, CmdBuffer, RspBuffer,
                  cmdMem, rspMem, TdxSharedBit, RetCode, RetValue, hostStore, sent, failStatuses >>

\* if (CmdBuffer) FreeSharedBuffer (CmdBuffer, VTPM_DEFAULT_ALLOCATION_PAGE)
QuitCmd(clearResult) ==
  /\ pc = "QuitCmd"
  /\ IF CmdBuffer # NULL
       THEN LET f == FreeSharedBuffer(Plat, CmdBuffer, VTPM_DEFAULT_ALLOCATION_PAGE,
                                      clearResult)
            IN  /\ SetPlat(f.plat)
                /\ trace' = [trace EXCEPT !.freed = Append(@, << CmdBuffer, f.Status >>)]
       ELSE UNCHANGED << platVars, trace >>
  /\ pc' = "QuitRsp"
  /\ UNCHANGED << ctx, held, lastAcquire, op, Request, ResponseSize, Response, CmdBuffer,
                  RspBuffer, cmdMem, rspMem, TdxSharedBit, RetCode, RetValue, Status,
                  hostStore, sent, failStatuses >>

\* if (RspBuffer) FreeSharedBuffer (RspBuffer, ...); return Status
QuitRsp(clearResult) ==
  /\ pc = "QuitRsp"
  /\ IF RspBuffer # NULL
       THEN LET f == FreeSharedBuffer(Plat, RspBuffer, VTPM_DEFAULT_ALLOCATION_PAGE,
                                      clearResult)
            IN  /\ SetPlat(f.plat)
                /\ trace' = [trace EXCEPT !.freed = Append(@, << RspBuffer, f.Status >>)]
       ELSE UNCHANGED << platVars, trace >>
  /\ pc' = "Done"
  /\ failStatuses' = IF trace.stage \in {"RetCode", "ServiceStatus", "MessageStatus"}
                       THEN failStatuses \cup {Status}
                       ELSE failStatuses
  /\ UNCHANGED << ctx, held, lastAcquire, op, Request, ResponseSize, Response, CmdBuffer,
                  RspBuffer, cmdMem, rspMem, TdxSharedBit, RetCode, RetValue, Status,
                  hostStore, sent >>

\* the caller has the result and goes on: the locals of the call are gone
Return ==
  /\ pc = "Done"
  /\ pc' = "Idle"
  /\ op' = "None"
  /\ Request' = << >>
  /\ ResponseSize' = U32(0)
  /\ Response' = << >>
  /\ CmdBuffer' = NULL
  /\ RspBuffer' = NULL
  /\ cmdMem' = << >>
  /\ rspMem' = << >>
  /\ TdxSharedBit' = UnsetMask
  /\ RetCode' = Unset
  /\ RetValue' = Unset
  /\ Status' = "Unset"
  /\ trace' = NoTrace
  /\ UNCHANGED << ctx, platVars, held, lastAcquire, hostStore, sent, failStatuses >>

\* what a host that is not cooperative answers: any length with both statuses
\* 0, and a failure at either layer with a short or a long length
HostAnswers ==
  {<< length, 0, 0 >> : length \in HostLengths}
    \cup {<< length, a[1], a[2] >> :
            length \in {0, SizeofHeaders + MaxLen},
            a \in (HostStatuses \X HostStatuses) \ {<< 0, 0 >>}}

Next ==
  \/ \E n \in 1..MaxPages, setResult \in SetResults :
       \E base \in AllocOutcomes(Plat, n) : Acquire(n, base, setResult)
  \/ \E h \in held, clearResult \in SetResults : Release(h, clearResult)
  \/ \E h \in {<< NULL, 1 >>} \cup {<< b[1], 0 >> : b \in held} : ReleaseInvalid(h)
  \/ \E req \in Requests : WriteEntry(req)
  \/ \E cap \in Capacities : ReadEntry(cap)
  \/ \E setResult \in SetResults :
       \E base \in AllocOutcomes(Plat, VTPM_DEFAULT_ALLOCATION_PAGE) :
         AllocCmd(base, setResult)
  \/ \E setResult \in SetResults :
       \E base \in AllocOutcomes(Plat, VTPM_DEFAULT_ALLOCATION_PAGE) :
         AllocRsp(base, setResult)
  \/ WriteBuild
  \/ ReadBuild
  \/ \E mask \in TdSharedPageMasks : GetMask(mask)
  \/ TdVmCallServed
  \/ \E code \in HostStatuses, value \in HostStatuses : TdVmCallFailed(code, value)
  \/ \E a \in HostAnswers : TdVmCallAnswered(a[1], a[2], a[3])
  \/ CheckRet
  \/ CheckService
  \/ CheckMessage
  \/ ReadProcess
  \/ \E clearResult \in SetResults : QuitCmd(clearResult)
  \/ \E clearResult \in SetResults : QuitRsp(clearResult)
  \/ Return

Spec == Init /\ [][Next]_vars

(***************************************************************************)
(* Concurrent invocations.  Every execution context runs VTpmContextWrite   *)
(* or VTpmContextRead with its own locals; the contexts share the page pool *)
(* only.  A step is one AllocateSharedBuffer, the TdVmCall, or one of the    *)
(* two platform calls of FreeSharedBuffer (clearing the attribute, freeing  *)
(* the pages), and the steps of the contexts interleave in any order.  Write *)
(* and Read acquire, use and release their buffers with the same code, so   *)
(* which of the two a context runs is not kept; a local that is not read    *)
(* again (a buffer after its FreeSharedBuffer) is set back to NULL.         *)
(***************************************************************************)
Proc(c) == ctx.proc[c]

\* context c takes a step to the locals p, the platform becoming P
CStep(c, p, P) ==
  /\ ctx' = [ctx EXCEPT !.proc[c] = p, !.plat = P]
  /\ UNCHANGED seqVars

\* a step in which context c clears the attribute of page b or frees it
CStepOn(c, b, p, P) ==
  /\ ctx' = [ctx EXCEPT !.proc[c] = p, !.plat = P,
                        !.foreign = @ \/ b \notin Proc(c).owns
                                      \/ \E d \in Contexts \ {c} : b \in Proc(d).owns]
  /\ UNCHANGED seqVars

\* entry of VTpmContextWrite / VTpmContextRead: CmdBuffer = RspBuffer = NULL
CEnter(c) ==
  /\ Proc(c).pc = "Idle"
  /\ CStep(c, [IdleProc EXCEPT !.pc = "AllocCmd"], ctx.plat)

\* CAllocateSharedBuffer gone wrong: the buffer is returned although marking
\* it shared failed and its pages were freed
CAllocateSharedBuffer_ReturnsFreedBuffer(c, base, setResult) ==
  /\ Proc(c).pc \in {"AllocCmd", "AllocRsp"}
  /\ LET a == AllocateSharedBuffer(ctx.plat, VTPM_DEFAULT_ALLOCATION_PAGE, base, setResult)
     IN  IF base = NULL
           THEN CStep(c, [Proc(c) EXCEPT !.pc = "QuitCmd"], a.plat)
           ELSE CStep(c, IF Proc(c).pc = "AllocCmd"
                           THEN [Proc(c) EXCEPT !.pc = "AllocRsp", !.CmdBuffer = base,
                                                !.owns = @ \cup {base}]
                           ELSE [Proc(c) EXCEPT !.pc = "Call", !.RspBuffer = base,
                                                !.owns = @ \cup {base}],
                      a.plat)

\* CmdBuffer / RspBuffer = AllocateSharedBuffer (VTPM_DEFAULT_ALLOCATION_PAGE),
\* base being what AllocatePages returns and setResult what
\* MemEncryptTdxSetPageSharedBit returns; NULL sends the caller to Quit
CAllocateSharedBuffer(c, base, setResult) ==
  /\ Proc(c).pc \in {"AllocCmd", "AllocRsp"}
  /\ LET a == AllocateSharedBuffer(ctx.plat, VTPM_DEFAULT_ALLOCATION_PAGE, base, setResult)
     IN  IF a.Buffer = NULL
           THEN CStep(c, [Proc(c) EXCEPT !.pc = "QuitCmd"], a.plat)
           ELSE CStep(c, IF Proc(c).pc = "AllocCmd"
                           THEN [Proc(c) EXCEPT !.pc = "AllocRsp", !.CmdBuffer = a.Buffer,
                                                !.owns = @ \cup {a.Buffer}]
                           ELSE [Proc(c) EXCEPT !.pc = "Call", !.RspBuffer = a.Buffer,
                                                !.owns = @ \cup {a.Buffer}],
                      a.plat)

\* both packets are built, then TdVmCall unless TdSharedPageMask () returns 0;
\* whatever the call returns, the invocation goes on to Quit
CTdVmCall(c, mask) ==
  /\ Proc(c).pc = "Call"
  /\ CStep(c, [Proc(c) EXCEPT !.pc = "QuitCmd"], ctx.plat)

\* the buffer the context is releasing
CReleasing(c) ==
  IF Proc(c).pc \in {"QuitCmd", "FreeCmd"} THEN Proc(c).CmdBuffer ELSE Proc(c).RspBuffer

\* the locals once the buffer is dealt with: on to the response buffer, or
\* return Status, which ends the invocation
CReleased(c) ==
  IF Proc(c).pc \in {"QuitCmd", "FreeCmd"}
    THEN [Proc(c) EXCEPT !.pc = "QuitRsp", !.CmdBuffer = NULL]
    ELSE IdleProc

\* if (CmdBuffer) / if (RspBuffer): FreeSharedBuffer, which begins with
\* MemEncryptTdxSetPageSharedBit (1, Buffer, Pages) and gives up if that fails
CClearShared(c, clearResult) ==
  /\ Proc(c).pc \in {"QuitCmd", "QuitRsp"}
  /\ LET b == CReleasing(c)
         r == MemEncryptTdxSetPageSharedBit(ctx.plat, 1, b, VTPM_DEFAULT_ALLOCATION_PAGE,
                                            clearResult)
     IN  IF b = NULL
           THEN clearResult = "EFI_SUCCESS"
                  /\ CStep(c, CReleased(c), ctx.plat)
           ELSE IF EFI_ERROR(r.Status)
             THEN CStepOn(c, b, CReleased(c), r.plat)
             ELSE CStepOn(c, b, [Proc(c) EXCEPT !.pc = IF @ = "QuitCmd" THEN "FreeCmd"
                                                                      ELSE "FreeRsp"],
                          r.plat)

\* FreeSharedBuffer: FreePages (Buffer, Pages)
CFreePages(c) ==
  /\ Proc(c).pc \in {"FreeCmd", "FreeRsp"}
  /\ LET b == CReleasing(c)
     IN  CStepOn(c, b, [CReleased(c) EXCEPT !.owns = @ \ {b}],
                 FreePages(ctx.plat, b, VTPM_DEFAULT_ALLOCATION_PAGE))

NextConcurrent ==
  \/ \E c \in Contexts : CEnter(c)
  \/ \E c \in Contexts, setResult \in SetResults :
       \E base \in AllocOutcomes(ctx.plat, VTPM_DEFAULT_ALLOCATION_PAGE) :
         CAllocateSharedBuffer(c, base, setResult)
  \/ \E c \in Contexts, mask \in TdSharedPageMasks : CTdVmCall(c, mask)
  \/ \E c \in Contexts, clearResult \in SetResults : CClearShared(c, clearResult)
  \/ \E c \in Contexts : CFreePages(c)

SpecConcurrent == Init /\ [][NextConcurrent]_vars

(***************************************************************************)
(* Properties.                                                             *)
(***************************************************************************)
\* the call has returned; Status is the value it returned
Returned == pc = "Done"

\* some FreeSharedBuffer of the call returned an error
ReleaseFailed == \E i \in 1..Len(trace.freed) : EFI_ERROR(trace.freed[i][2])

\* the FreeSharedBuffer calls of this invocation on page p
FreesOf(p) == {i \in 1..Len(trace.freed) : trace.freed[i][1] = p}

\* TdVmCall returned 0 / 0 and both statuses of the response are 0
ResponseAccepted ==
  /\ CmdBuffer # NULL
  /\ RspBuffer # NULL
  /\ TdxSharedBit \notin {NoMask, UnsetMask}
  /\ RetCode = 0
  /\ RetValue = 0
  /\ ServiceStatus(rspMem) = U32(0)
  /\ MessageStatus(rspMem) = 0

\* the outer length of the response, as a number
OuterLength == U32Val(ServiceLength(rspMem))

\* the caller's destination buffer as it was on entry
ResponseOnEntry == Run(trace.capIn, CallerFill)

\* C1 as claimed: whatever the stage at which a Write or Read ends, every
\* buffer it acquired is released when it returns (shared attribute cleared
\* and pages freed), also when the attribute-clearing step fails
C1_AllReleasedOnReturn ==
  Returned => \A p \in trace.acquired : p \notin allocated /\ p \notin shared

\* C1 as amended: when a Write or Read returns, FreeSharedBuffer has been
\* called exactly once on every buffer the call acquired (and on nothing
\* else); a buffer is released (not shared, not allocated) if that call
\* succeeded, and still allocated and shared if the clearing step failed
C1_ReleaseAttemptedOnReturn ==
  Returned =>
    /\ trace.acquired = {CmdBuffer, RspBuffer} \ {NULL}
    /\ \A i \in 1..Len(trace.freed) : trace.freed[i][1] \in trace.acquired
    /\ \A p \in trace.acquired :
         /\ Cardinality(FreesOf(p)) = 1
         /\ \A i \in FreesOf(p) :
              IF EFI_ERROR(trace.freed[i][2])
                THEN p \in allocated /\ p \in shared
                ELSE p \notin allocated /\ p \notin shared

\* C1 witness: a call that acquired both buffers has returned, one release
\* having failed and the other succeeded
C1_Witness ==
  /\ Returned
  /\ Cardinality(trace.acquired) = 2
  /\ ReleaseFailed
  /\ \E i \in 1..Len(trace.freed) : ~EFI_ERROR(trace.freed[i][2])

\* C2: a Read whose TdVmCall and both statuses succeed, with a capacity C
\* smaller than the payload length R = outer length - 28, returns
\* EFI_BUFFER_TOO_SMALL, sets *ResponseSize to R and copies nothing
C2_CapacityError ==
  (Returned /\ op = "Read" /\ ResponseAccepted
     /\ trace.capIn < OuterLength - SizeofHeaders)
    => /\ Status = "EFI_BUFFER_TOO_SMALL"
       /\ ResponseSize = U32(OuterLength - SizeofHeaders)
       /\ Response = ResponseOnEntry
       /\ trace.copied = 0

\* C2 witness: such a Read, with a capacity above 0 and a payload one byte longer
C2_Witness ==
  /\ Returned /\ op = "Read" /\ ResponseAccepted
  /\ trace.capIn > 0
  /\ OuterLength - SizeofHeaders = trace.capIn + 1
  /\ Status = "EFI_BUFFER_TOO_SMALL"

\* C3 as claimed: a Read whose TdVmCall and both statuses succeed, with a
\* capacity C >= R = outer length - 28, returns EFI_SUCCESS, copies exactly the
\* R bytes that follow the 28-byte header of the response buffer and sets
\* *ResponseSize to R
C3_CopiesPayload ==
  (Returned /\ op = "Read" /\ ResponseAccepted
     /\ trace.capIn >= OuterLength - SizeofHeaders)
    => /\ Status = "EFI_SUCCESS"
       /\ ResponseSize = U32(OuterLength - SizeofHeaders)
       /\ SizeofHeaders + trace.copied <= Size(rspMem)
       /\ trace.copied = OuterLength - SizeofHeaders
       /\ Response = CopyMem(ResponseOnEntry, 0,
                             Take(Drop(rspMem, SizeofHeaders), OuterLength - SizeofHeaders))

\* C4 as claimed: an outer length below the 28 bytes of the two headers makes
\* Read fail with a protocol violation: no payload length is computed from
\* it, *ResponseSize is not rewritten and nothing is copied
C4_ShortLengthRejected ==
  (Returned /\ op = "Read" /\ ResponseAccepted /\ OuterLength < SizeofHeaders)
    => /\ Status \notin {"EFI_SUCCESS", "EFI_BUFFER_TOO_SMALL"}
       /\ ResponseSize = U32(trace.capIn)
       /\ Response = ResponseOnEntry

\* C5 as claimed: with a shared-address mask of 0 Write and Read fail, with
\* a status unlike the one of a failed TdVmCall or of a nonzero status in the
\* response, and TdVmCall is not invoked
C5_MaskZeroDistinctError ==
  (Returned /\ TdxSharedBit = NoMask)
    => /\ EFI_ERROR(Status)
       /\ trace.calls = 0
       /\ Status \notin failStatuses

\* C5 as amended: with a shared-address mask of 0 Write and Read go straight
\* to the release of the buffers and return EFI_ABORTED, the status they also
\* return for a failed TdVmCall and for a nonzero status in the response;
\* TdVmCall is not invoked
C5_MaskZeroAborts ==
  /\ failStatuses \subseteq {"EFI_ABORTED"}
  /\ TdxSharedBit = NoMask
       => /\ pc \in {"QuitCmd", "QuitRsp", "Done"}
          /\ Status = "EFI_ABORTED"
          /\ trace.calls = 0

\* C5 witness: a Read has returned after a mask of 0, an earlier call having
\* failed in TdVmCall or on a status of the response
C5_Witness ==
  /\ Returned /\ op = "Read" /\ TdxSharedBit = NoMask
  /\ failStatuses # {}

\* C6: Write returns EFI_SUCCESS if and only if both buffers were acquired,
\* the mask is not 0, TdVmCall returned 0 / 0 and both statuses of the
\* response are 0; it has no output
C6_WriteSuccessIff ==
  (Returned /\ op = "Write")
    => /\ Status = "EFI_SUCCESS" <=> ResponseAccepted
       /\ Status \in {"EFI_SUCCESS", "EFI_UNSUPPORTED", "EFI_ABORTED"}
       /\ Response = << >>
       /\ ResponseSize = U32(0)

\* C6 witness: a Write returned EFI_SUCCESS although a release failed
C6_Witness ==
  /\ Returned /\ op = "Write" /\ Status = "EFI_SUCCESS"
  /\ ReleaseFailed

\* C7: after a Write of at most 4096 - 28 bytes served by a cooperative host,
\* a Read with enough capacity served by that host returns EFI_SUCCESS with
\* the bytes given to Write and their number in *ResponseSize
C7_RoundTrip ==
  (Returned /\ op = "Read" /\ trace.hostCoop
     /\ Size(sent) <= MaxPayloadSize /\ trace.capIn >= Size(sent))
    => /\ Status = "EFI_SUCCESS"
       /\ ResponseSize = U32(Size(sent))
       /\ Take(Response, Size(sent)) = sent
       /\ Drop(Response, Size(sent)) = Drop(ResponseOnEntry, Size(sent))

\* C7 witness: the round trip of the largest payload that fits
C7_Witness ==
  /\ Returned /\ op = "Read" /\ trace.hostCoop
  /\ Size(sent) = MaxPayloadSize
  /\ trace.capIn >= Size(sent)
  /\ Take(Response, Size(sent)) = sent

\* the status the call had when it went to release its buffers
StatusAtQuit ==
  CASE trace.stage \in {"AllocCmd", "AllocRsp"} -> "EFI_UNSUPPORTED"
    [] trace.stage \in {"Mask", "RetCode", "ServiceStatus", "MessageStatus"} -> "EFI_ABORTED"
    [] trace.stage = "Capacity" -> "EFI_BUFFER_TOO_SMALL"
    [] OTHER -> "EFI_SUCCESS"

\* C8 as claimed: a release that fails is reported to the caller without
\* replacing an earlier error: a call that had failed returns that error, and
\* a call that had succeeded does not return EFI_SUCCESS
C8_ReleaseFailureReported ==
  (Returned /\ ReleaseFailed)
    => IF EFI_ERROR(StatusAtQuit) THEN Status = StatusAtQuit ELSE EFI_ERROR(Status)

\* C9: Acquire returns a buffer whose pages are allocated and all shared, or
\* it returns NULL and leaves no page allocated or shared that was not before
C9_AcquireAllOrNothing ==
  /\ lastAcquire.kind = "Acquire" =>
       IF lastAcquire.Buffer # NULL
         THEN /\ Range(lastAcquire.Buffer, lastAcquire.Pages) \cap lastAcquire.before.allocated = {}
              /\ Range(lastAcquire.Buffer, lastAcquire.Pages) \subseteq allocated
              /\ Range(lastAcquire.Buffer, lastAcquire.Pages) \subseteq shared
         ELSE Plat = lastAcquire.before
  /\ pc \in {"AllocRsp", "Build", "GetMask", "Call"} => CmdBuffer \in allocated \cap shared
  /\ pc \in {"Build", "GetMask", "Call"} => RspBuffer \in (allocated \cap shared) \ {CmdBuffer}
  /\ (pc = "QuitCmd" /\ trace.stage = "AllocCmd") => CmdBuffer = NULL /\ trace.acquired = {}
  /\ (pc = "QuitCmd" /\ trace.stage = "AllocRsp") =>
       RspBuffer = NULL /\ trace.acquired = {CmdBuffer}

\* C9 witness: an Acquire of two pages failed in marking them shared, after
\* the pages had been allocated
C9_Witness ==
  /\ lastAcquire.kind = "Acquire"
  /\ lastAcquire.Pages = 2
  /\ lastAcquire.base # NULL
  /\ lastAcquire.Buffer = NULL

\* C10: no page is free while its shared attribute is set; a Release that
\* fails to clear the attribute returns the platform error and changes
\* nothing, one that succeeds leaves the pages private and free
C10_NoFreeSharedPage ==
  /\ shared \subseteq allocated
  /\ (lastAcquire.kind = "Release" /\ lastAcquire.Buffer # NULL /\ lastAcquire.Pages # 0) =>
       IF EFI_ERROR(lastAcquire.Status)
         THEN /\ lastAcquire.Status \in PlatformErrors
              /\ Plat = lastAcquire.before
              /\ Range(lastAcquire.Buffer, lastAcquire.Pages) \subseteq allocated
         ELSE /\ Range(lastAcquire.Buffer, lastAcquire.Pages) \cap (allocated \cup shared) = {}
              /\ allocated = lastAcquire.before.allocated
                               \ Range(lastAcquire.Buffer, lastAcquire.Pages)

\* C10 witness: a Release failed to clear the attribute, while a page a call
\* could not release is still allocated and shared
C10_Witness ==
  /\ lastAcquire.kind = "Release"
  /\ lastAcquire.Status \in PlatformErrors
  /\ Range(lastAcquire.Buffer, lastAcquire.Pages) \subseteq shared
  /\ \E p \in shared : p \notin Range(lastAcquire.Buffer, lastAcquire.Pages)

\* C11 as claimed: a successful Acquire followed by a Release of the buffer
\* it returned restores the platform: no page of the region is shared and
\* the allocated pages are those allocated before the Acquire
C11_AcquireReleaseRestores ==
  (lastAcquire.kind = "Release" /\ lastAcquire.paired)
    => /\ Range(lastAcquire.Buffer, lastAcquire.Pages) \cap shared = {}
       /\ allocated = lastAcquire.origin.allocated

\* C11 as amended: a successful Acquire followed by a Release that returns
\* EFI_SUCCESS restores the platform (allocated pages and shared pages are
\* those before the Acquire); a Release that fails to clear the attribute
\* returns the platform error and leaves the region allocated and shared
C11_AcquireSuccessfulReleaseRestores ==
  (lastAcquire.kind = "Release" /\ lastAcquire.paired)
    => IF ~EFI_ERROR(lastAcquire.Status)
         THEN /\ Plat = lastAcquire.origin
              /\ Range(lastAcquire.Buffer, lastAcquire.Pages) \cap (shared \cup allocated) = {}
         ELSE /\ lastAcquire.Status \in PlatformErrors
              /\ allocated = lastAcquire.origin.allocated
                               \cup Range(lastAcquire.Buffer, lastAcquire.Pages)
              /\ shared = lastAcquire.origin.shared
                            \cup Range(lastAcquire.Buffer, lastAcquire.Pages)

\* C11 witness: two pages acquired and then released with success, while a
\* page an earlier call could not release is still allocated and shared
C11_Witness ==
  /\ lastAcquire.kind = "Release" /\ lastAcquire.paired
  /\ lastAcquire.Pages = 2
  /\ ~EFI_ERROR(lastAcquire.Status)
  /\ shared # {}

\* C12: with Write / Read invocations of several execution contexts
\* interleaved in any order, every buffer is owned by one invocation in
\* flight: no page is held by two invocations, the two buffers of an
\* invocation that has reached its TdVmCall are its own, allocated and
\* shared, and no invocation clears the attribute of, or frees, a page it
\* does not own or that another invocation owns
C12_SingleOwner ==
  /\ \A c \in Contexts, d \in Contexts : c # d => Proc(c).owns \cap Proc(d).owns = {}
  /\ \A c \in Contexts :
       /\ Proc(c).owns \subseteq ctx.plat.allocated
       /\ Proc(c).pc = "Call" =>
            /\ Proc(c).CmdBuffer # Proc(c).RspBuffer
            /\ Proc(c).owns = {Proc(c).CmdBuffer, Proc(c).RspBuffer}
            /\ Proc(c).owns \subseteq ctx.plat.shared
  /\ ~ctx.foreign

\* C12 witness: two invocations are at their TdVmCall at once, each with its
\* two buffers, the page of one of them having been used and freed by an
\* invocation before
C12_Witness ==
  \E c \in Contexts, d \in Contexts :
    /\ c # d
    /\ Proc(c).pc = "Call"
    /\ Proc(d).pc = "Call"
    /\ Proc(c).CmdBuffer < Proc(d).CmdBuffer
    /\ Proc(d).CmdBuffer < Proc(c).RspBuffer

\* the caller's *ResponseSize and Response are as they were on entry
OutputsUntouched ==
  /\ ResponseSize = U32(trace.capIn)
  /\ Response = ResponseOnEntry
  /\ trace.copied = 0
  /\ trace.beyondRead = 0

\* C13: Write and Read look at the return code and value of TdVmCall first,
\* then at the status of the service header, then at the status of the
\* message header, and Read takes the outer length only when all three are
\* 0: a call that fails at one of them returns EFI_ABORTED with the caller's
\* outputs untouched, whatever the fields behind it hold
C13_ValidationOrder ==
  /\ pc = "CheckService" => RetCode = 0 /\ RetValue = 0
  /\ pc = "CheckMessage" => RetCode = 0 /\ RetValue = 0 /\ ServiceStatus(rspMem) = U32(0)
  /\ pc = "Process" => ResponseAccepted
  /\ (trace.calls > 0 /\ ~OutputsUntouched) => ResponseAccepted
  /\ (Returned /\ trace.calls > 0) =>
       IF RetCode # 0 \/ RetValue # 0
         THEN Status = "EFI_ABORTED" /\ trace.stage = "RetCode" /\ OutputsUntouched
       ELSE IF ServiceStatus(rspMem) # U32(0)
         THEN Status = "EFI_ABORTED" /\ trace.stage = "ServiceStatus" /\ OutputsUntouched
       ELSE IF MessageStatus(rspMem) # 0
         THEN Status = "EFI_ABORTED" /\ trace.stage = "MessageStatus" /\ OutputsUntouched
       ELSE trace.stage \in {"Success", "Capacity"}

\* C13 witness: a Read has returned whose response has a nonzero status in
\* the service header, a status of 0 in the message header and an outer
\* length of 0, shorter than the headers
C13_Witness ==
  /\ Returned /\ op = "Read" /\ trace.calls > 0
  /\ RetCode = 0 /\ RetValue = 0
  /\ ServiceStatus(rspMem) # U32(0)
  /\ MessageStatus(rspMem) = 0
  /\ OuterLength = 0
  /\ trace.capIn > 0

\* C14 as claimed: no Write copies bytes behind the end of its one-page
\* command buffer, whatever the length of the payload
C14_WriteWithinCommandBuffer ==
  op = "Write" => trace.beyondWrite = 0

\* the command frame and the response skeleton are built
FramesBuilt == pc \in {"GetMask", "Call", "CheckRet"}

\* C15 as claimed: in Write and in Read the outer length of the response
\* skeleton is the capacity of the response buffer, 4096
C15_SkeletonLengthIsCapacity ==
  (FramesBuilt /\ trace.calls = 0)
    => ServiceLength(rspMem) = U32(EFI_PAGES_TO_SIZE(VTPM_DEFAULT_ALLOCATION_PAGE))

\* C15 as amended: the response skeleton holds the two header templates
\* with an outer length of 4096, the capacity of the response buffer, in Read
\* and of 28, the size of the two headers, in Write
C15_SkeletonLength ==
  (FramesBuilt /\ trace.calls = 0)
    => IF op = "Read"
         THEN /\ ServiceLength(rspMem) = U32(Size(rspMem))
              /\ Size(rspMem) = EFI_PAGE_SIZE
              /\ Take(Drop(rspMem, SizeofServiceHeader), SizeofMessageHeader)
                   = mReceiveMessageResponseHeaderTemplate
              /\ Take(rspMem, OffsetLength) = ServiceGuid
              /\ ServiceStatus(rspMem) = U32(0)
         ELSE /\ ServiceLength(rspMem) = U32(SizeofHeaders)
              /\ Size(rspMem) = EFI_PAGE_SIZE
              /\ Take(Drop(rspMem, SizeofServiceHeader), SizeofMessageHeader)
                   = mSendMessageResponseHeaderTemplate
              /\ Take(rspMem, OffsetLength) = ServiceGuid
              /\ ServiceStatus(rspMem) = U32(0)

\* C15 witness: a Write is about to issue TdVmCall, its skeleton announcing
\* 28 bytes in a buffer of 4096
C15_Witness ==
  /\ pc = "Call" /\ op = "Write"
  /\ ServiceLength(rspMem) = U32(SizeofHeaders)
  /\ Size(rspMem) > SizeofHeaders

\* the bytes the build of the command frame stored, in the command buffer and
\* behind it
CommandBytesWritten == Min(SizeofHeaders + Size(Request), Size(cmdMem)) + trace.beyondWrite

\* the command frame Write and Read are to send
CommandFrame ==
  Cat(Cat(Cat(Cat(ServiceGuid, U32Bytes(U32(SizeofHeaders + Size(Request)))),
              U32Bytes(U32(0))),
          Bytes(<< 0, IF op = "Write" THEN SERVICE_VTPM_SEND_MESSAGE
                                      ELSE SERVICE_VTPM_RECEIVE_MESSAGE, 0, 0 >>)),
      Request)

\* C16: the outer length of a command frame is the number of bytes the build
\* wrote, 28 + L for a Write of L bytes and 28 for a Read, not the capacity of
\* the buffer; the frame is the service header, then the message header
\* (version 0, command 1 for Write and 2 for Read, reserved 0), then the
\* payload
C16_CommandLength ==
  (pc \in {"GetMask", "Call", "CheckRet", "CheckService", "CheckMessage", "Process"})
    => /\ ServiceLength(cmdMem) = U32(CommandBytesWritten)
       /\ ServiceLength(cmdMem) = U32(SizeofHeaders + Size(Request))
       /\ op = "Read" => ServiceLength(cmdMem) = U32(SizeofHeaders)
       /\ Take(cmdMem, Min(Size(CommandFrame), Size(cmdMem)))
            = Take(CommandFrame, Size(cmdMem))
       /\ At(cmdMem, SizeofServiceHeader) = 0
       /\ At(cmdMem, OffsetMsgCommand) = (IF op = "Write" THEN 1 ELSE 2)
       /\ Take(Drop(cmdMem, OffsetMsgStatus), 2) = Run(2, 0)

\* C16 witness: a Write of a short payload, and not of none, is about to issue
\* TdVmCall, with a frame shorter than its buffer
C16_Witness ==
  /\ pc = "Call" /\ op = "Write"
  /\ Size(Request) = MaxLen
  /\ ServiceLength(cmdMem) = U32(SizeofHeaders + MaxLen)
  /\ SizeofHeaders + MaxLen < Size(cmdMem)

\* C17: an invocation issues TdVmCall at most once: not at all when a buffer
\* is missing or the mask is 0, once otherwise; once the call has failed (a
\* timeout is a nonzero return code) the invocation only releases its
\* buffers and returns
C17_CallAtMostOnce ==
  /\ trace.calls <= 1
  /\ trace.calls = 1 <=>
       \/ pc \in {"CheckRet", "CheckService", "CheckMessage", "Process"}
       \/ /\ pc \in {"QuitCmd", "QuitRsp", "Done"}
          /\ trace.stage \notin {"AllocCmd", "AllocRsp", "Mask"}
  /\ Returned =>
       (trace.calls = 1 <=>
          (CmdBuffer # NULL /\ RspBuffer # NULL /\ TdxSharedBit \notin {NoMask, UnsetMask}))
  /\ (pc \in {"QuitCmd", "QuitRsp", "Done"} /\ trace.stage = "RetCode") =>
       /\ RetCode # 0 \/ RetValue # 0
       /\ Status = "EFI_ABORTED"

\* C17 witness: a Write whose TdVmCall returned a nonzero code has returned
\* after that one call
C17_Witness ==
  /\ Returned /\ op = "Write"
  /\ RetCode # 0
  /\ trace.calls = 1

\* C18: when TdVmCall is issued both buffers of the invocation are allocated
\* and shared and both packets are complete; the buffers stay shared until
\* the call has returned and its response has been dealt with, and a page
\* that has been freed is no longer shared
C18_SharedAcrossCall ==
  /\ pc \in {"Call", "CheckRet", "CheckService", "CheckMessage", "Process"} =>
       /\ CmdBuffer # NULL /\ RspBuffer # NULL /\ CmdBuffer # RspBuffer
       /\ {CmdBuffer, RspBuffer} \subseteq allocated
       /\ {CmdBuffer, RspBuffer} \subseteq shared
       /\ trace.freed = << >>
  /\ pc = "Call" =>
       /\ \A i \in 0..(Min(SizeofHeaders + Size(Request), Size(cmdMem)) - 1) :
            At(cmdMem, i) # Uninitialized
       /\ \A i \in 0..(SizeofHeaders - 1) : At(rspMem, i) # Uninitialized
       /\ ServiceStatus(rspMem) = U32(0)
       /\ MessageStatus(rspMem) = 0
       /\ trace.calls = 0
  /\ \A i \in 1..Len(trace.freed) :
       trace.freed[i][1] \notin allocated => trace.freed[i][1] \notin shared
  /\ Len(trace.freed) > 0 => pc \in {"QuitRsp", "Done"}

\* C18 witness: a Read is about to issue TdVmCall with its two buffers,
\* next to a page an earlier call could not release
C18_Witness ==
  /\ pc = "Call" /\ op = "Read"
  /\ {CmdBuffer, RspBuffer} \subseteq shared
  /\ Cardinality(shared) = 3

\* C19 as claimed: Read copies no byte from behind the end of the response
\* buffer, whatever outer length the host reports: at most 4096 - 28 bytes
\* are copied
C19_CopyWithinResponseBuffer ==
  op = "Read" => /\ trace.beyondRead = 0
                 /\ trace.copied <= EFI_PAGE_SIZE - SizeofHeaders

\* C20: a Read that fails for want of a buffer, on a mask of 0, on the
\* return code or value of TdVmCall or on a nonzero status of either header
\* leaves *ResponseSize and the caller's buffer as they were on entry
C20_FailedReadKeepsOutputs ==
  (Returned /\ op = "Read")
    => /\ Status \in {"EFI_UNSUPPORTED", "EFI_ABORTED"} <=>
            trace.stage \in {"AllocCmd", "AllocRsp", "Mask", "RetCode", "ServiceStatus",
                             "MessageStatus"}
       /\ Status \in {"EFI_UNSUPPORTED", "EFI_ABORTED"} =>
            /\ ResponseSize = U32(trace.capIn)
            /\ Response = ResponseOnEntry
       /\ Status \in {"EFI_SUCCESS", "EFI_BUFFER_TOO_SMALL", "EFI_UNSUPPORTED", "EFI_ABORTED"}

\* C20 witness: a Read with a capacity of one page has returned for want of
\* a response buffer
C20_Witness ==
  /\ Returned /\ op = "Read"
  /\ trace.stage = "AllocRsp"
  /\ trace.capIn = EFI_PAGE_SIZE
  /\ ResponseSize = U32(EFI_PAGE_SIZE)

====
